---- MODULE Spec2Model ----
(***************************************************************************)
(* Model of count_cycles.py: production-cycle analysis of power readings.  *)
(* The script is a straight-line pipeline; pc is the position in it.       *)
(* Timestamps are whole seconds since 00:00 of day 0.                      *)
(***************************************************************************)
EXTENDS Integers, Sequences, FiniteSets

VARIABLES raw, pc, err, df, running, cycle_start, cycle_end,
          cycle_starts, cycle_ends, cycles, cycle_count,
          df_shift, shift_full_map, df_full,
          cycles_per_individual_shift, average_cycles_per_shift_type,
          overall, cycles_full, shift_cycle_stats, cycle_id,
          ts, ts_shift, times, times_map

vars == <<raw, pc, err, df, running, cycle_start, cycle_end,
          cycle_starts, cycle_ends, cycles, cycle_count,
          df_shift, shift_full_map, df_full,
          cycles_per_individual_shift, average_cycles_per_shift_type,
          overall, cycles_full, shift_cycle_stats, cycle_id,
          ts, ts_shift, times, times_map>>

pipeVars == <<raw, pc, err, df, running, cycle_start, cycle_end,
          cycle_starts, cycle_ends, cycles, cycle_count,
          df_shift, shift_full_map, df_full,
          cycles_per_individual_shift, average_cycles_per_shift_type,
          overall, cycles_full, shift_cycle_stats, cycle_id>>

probeVars == <<ts, ts_shift, times, times_map>>

(* ------------------------------ bounds --------------------------------- *)
\* most readings of the analysed metric in one input file
MaxLen == 4
\* calendar days the input timestamps are drawn from
MaxDay == 1

(* --------------------------- time arithmetic --------------------------- *)
Ts(d, h, m) == d * 86400 + h * 3600 + m * 60
Hour(t) == (t \div 3600) % 24
Date(t) == t \div 86400

\* clock times of the readings fed to the whole pipeline: the first and the
\* last hour of the morning shift and of the night shift that follows it
MainInstants ==
  UNION {{Ts(d, 6, 0), Ts(d, 13, 0), Ts(d, 22, 0), Ts(d + 1, 5, 0)} :
           d \in 0..(MaxDay - 1)}
\* timestamps fed to the shift classifier alone
ShiftInstants == {Ts(d, h, m) : d \in 0..MaxDay, h \in 0..23, m \in {0, 59}}
\* timestamps of the groups fed to the completeness classifier alone
FullInstants == {Ts(d, h, 0) : d \in 0..MaxDay,
                               h \in {0, 5, 6, 13, 14, 21, 22, 23}}

Metrics == {"Power_consumption", "Temperature"}
\* value 1 sits exactly on the threshold, value 2 is above it
Values == {1, 2}

(* ------------------------------ helpers -------------------------------- *)
NA == [na |-> TRUE, v |-> 0]
Val(x) == [na |-> FALSE, v |-> x]

RECURSIVE SeqSum(_)
SeqSum(s) == IF s = <<>> THEN 0 ELSE Head(s) + SeqSum(Tail(s))

RECURSIVE FilterSeq(_, _)
\* rows of s whose flag in keep is set, in order
FilterSeq(s, keep) ==
  IF s = <<>> THEN <<>>
  ELSE (IF Head(keep) THEN <<Head(s)>> ELSE <<>>) \o FilterSeq(Tail(s), Tail(keep))

Min2(a, b) == IF a < b THEN a ELSE b
SetMin(S) == CHOOSE x \in S : \A y \in S : x <= y
SetMax(S) == CHOOSE x \in S : \A y \in S : y <= x

(* ------------------------- lines 9-17: loading ------------------------- *)
LoadFrame(rows) ==
  LET keep == [i \in DOMAIN rows |-> rows[i].metric = "Power_consumption"]
      kept == FilterSeq(rows, keep)
  IN [i \in DOMAIN kept |-> [time |-> kept[i].time, value |-> kept[i].value]]

(* ---------------------- lines 22-39: edge detection -------------------- *)
threshold == 1

RunningCol(frame) == [i \in DOMAIN frame |-> frame[i].value > threshold]

\* Series.shift(fill_value=False): the previous row's flag, False for row 1
ShiftDown(col) == [i \in DOMAIN col |-> IF i = 1 THEN FALSE ELSE col[i - 1]]

CycleStartCol_fillTrue(run) ==
  [i \in DOMAIN run |-> run[i] /\ ~(IF i = 1 THEN TRUE ELSE run[i - 1])]
CycleStartCol(run) == [i \in DOMAIN run |-> run[i] /\ ~ShiftDown(run)[i]]

CycleEndCol_fillTrue(run) ==
  [i \in DOMAIN run |-> ~run[i] /\ (IF i = 1 THEN TRUE ELSE run[i - 1])]
CycleEndCol_lastRunning(run) ==
  [i \in DOMAIN run |-> run[i] /\ (IF i = Len(run) THEN FALSE ELSE ~run[i + 1])]
CycleEndCol(run) == [i \in DOMAIN run |-> ~run[i] /\ ShiftDown(run)[i]]

\* df[flag][['time']].reset_index(drop=True): the times of the flagged rows,
\* renumbered 0, 1, 2, ...
EventTimes(frame, flag) ==
  LET rows == FilterSeq(frame, flag) IN [i \in DOMAIN rows |-> rows[i].time]

\* first label of the index of a frame that went through reset_index(drop=True)
FirstIndex(frame) == 0

(* ------------------------ lines 42-46: alignment ----------------------- *)
\* index[0] of an empty frame raises IndexError
AlignRaises(starts, ends) == ends = <<>> \/ starts = <<>>

AlignFrames_noTruncate(starts, ends) ==
  LET e1 == IF FirstIndex(ends) < FirstIndex(starts) THEN Tail(ends) ELSE ends
  IN [starts |-> starts, ends |-> e1]
AlignFrames(starts, ends) ==
  LET e1 == IF FirstIndex(ends) < FirstIndex(starts) THEN Tail(ends) ELSE ends
      min_len == Min2(Len(starts), Len(e1))
  IN [starts |-> SubSeq(starts, 1, min_len), ends |-> SubSeq(e1, 1, min_len)]

(* ------------------- lines 49-57: durations and pauses ----------------- *)
Max2(a, b) == IF a < b THEN b ELSE a
\* value of a 0-based frame at row k, missing when the frame has no such row
At(col, k) == IF k \in DOMAIN col THEN Val(col[k]) ELSE NA
\* difference of two timestamps in seconds, missing when either is missing
SecondsBetween(a, b) == IF a.na \/ b.na THEN NA ELSE Val(a.v - b.v)

\* Series.shift(-1): the next row's value, missing for the last row
NextStart(starts, n) == [k \in 1..n |-> At(starts, k + 1)]

CycleTable_fromStart(starts, ends) ==
  LET n == Max2(Len(starts), Len(ends))
  IN [k \in 1..n |->
       [start_time |-> At(starts, k), end_time |-> At(ends, k),
        duration_sec |-> SecondsBetween(At(ends, k), At(starts, k)),
        next_start_time |-> NextStart(starts, n)[k],
        pause_sec |-> SecondsBetween(NextStart(starts, n)[k], At(starts, k))]]
\* pd.DataFrame of two Series: one row per index label of either Series
CycleTable(starts, ends) ==
  LET n == Max2(Len(starts), Len(ends))
  IN [k \in 1..n |->
       [start_time |-> At(starts, k), end_time |-> At(ends, k),
        duration_sec |-> SecondsBetween(At(ends, k), At(starts, k)),
        next_start_time |-> NextStart(starts, n)[k],
        pause_sec |-> SecondsBetween(NextStart(starts, n)[k], At(ends, k))]]

\* Series.sum() of a boolean column
CountTrue(col) == Cardinality({i \in DOMAIN col : col[i]})

(* ---------------- lines 69-78: assign_shift_and_date ------------------- *)
assign_shift_and_date_sameDay(t) ==
  LET hour == Hour(t)
  IN IF 6 <= hour /\ hour < 14 THEN [shift |-> "morning", shift_date |-> Date(t)]
     ELSE IF 14 <= hour /\ hour < 22 THEN [shift |-> "day", shift_date |-> Date(t)]
     ELSE [shift |-> "night", shift_date |-> Date(t)]
assign_shift_and_date(t) ==
  LET hour == Hour(t)
  IN IF 6 <= hour /\ hour < 14 THEN [shift |-> "morning", shift_date |-> Date(t)]
     ELSE IF 14 <= hour /\ hour < 22 THEN [shift |-> "day", shift_date |-> Date(t)]
     ELSE [shift |-> "night",
           shift_date |-> IF hour >= 22 THEN Date(t) ELSE Date(t - 86400)]

(* -------------------- lines 83-99: shift_is_full ----------------------- *)
\* group: the timestamps of the rows of one (shift_date, shift) group
shift_is_full_minMaxHour(group, shift_name) ==
  LET lo == SetMin({Hour(t) : t \in group})
      hi == SetMax({Hour(t) : t \in group})
  IN IF shift_name = "morning" THEN lo = 6 /\ hi = 13
     ELSE IF shift_name = "day" THEN lo = 14 /\ hi = 21
     ELSE lo = 22 /\ hi = 5
shift_is_full(group, shift_name) ==
  LET start_time == SetMin(group)
      end_time == SetMax(group)
  IN IF shift_name = "morning" THEN Hour(start_time) = 6 /\ Hour(end_time) = 13
     ELSE IF shift_name = "day" THEN Hour(start_time) = 14 /\ Hour(end_time) = 21
     ELSE Hour(start_time) = 22 /\ Hour(end_time) = 5

(* ------------------ lines 101-103: shift_full_map ---------------------- *)
\* one row per (shift_date, shift) group of the given timestamps
ShiftFullMap(T) ==
  {[shift_date |-> g.shift_date, shift |-> g.shift,
    shift_type |-> IF shift_is_full({t \in T : assign_shift_and_date(t) = g}, g.shift)
                   THEN "full" ELSE "half"] :
     g \in {assign_shift_and_date(t) : t \in T}}

\* left merge on (shift_date, shift): the shift_type of the matching map row
ShiftTypeOf(map, key) ==
  IF \E r \in map : r.shift_date = key.shift_date /\ r.shift = key.shift
  THEN (CHOOSE r \in map : r.shift_date = key.shift_date /\ r.shift = key.shift).shift_type
  ELSE "NaN"

(* ------------------------- pandas aggregates --------------------------- *)
RECURSIVE Present(_)
\* the values of a column that are not missing (aggregates skip NaN)
Present(col) ==
  IF col = <<>> THEN <<>>
  ELSE (IF Head(col).na THEN <<>> ELSE <<Head(col).v>>) \o Present(Tail(col))

\* Series.mean(): the exact quotient num/den, missing over no values
Mean(col) ==
  LET v == Present(col)
  IN IF v = <<>> THEN [na |-> TRUE, num |-> 0, den |-> 1]
     ELSE [na |-> FALSE, num |-> SeqSum(v), den |-> Len(v)]

\* Series.std() (ddof = 1): missing under two values; the value itself is
\* irrational, so it is kept as the sample it is the deviation of
Std(col) ==
  LET v == Present(col)
  IN IF Len(v) < 2 THEN [na |-> TRUE, sample |-> <<>>]
     ELSE [na |-> FALSE, sample |-> v]

\* std / mean in floating point: never raises, not a number when an operand
\* is missing or the mean is zero
CV(std, mean) ==
  [na |-> std.na \/ mean.na \/ mean.num = 0, std |-> std, mean |-> mean]

Column(frame, name) == [k \in DOMAIN frame |-> frame[k][name]]

(* ------------ lines 112-127: cycles per full shift, averaged ----------- *)
\* groupby([shift_date, shift]).size() over the cycle-start rows of df_full:
\* one row per group that has at least one such row
CyclesPerShift(starts_flag, shifts, full_rows) ==
  LET rows == {i \in full_rows : starts_flag[i]}
      key(i) == [shift_date |-> shifts[i].shift_date, shift |-> shifts[i].shift]
  IN {[shift_date |-> g.shift_date, shift |-> g.shift,
       cycles |-> Cardinality({i \in rows : key(i) = g})] :
        g \in {key(i) : i \in rows}}

RECURSIVE SumCycles(_)
SumCycles(S) ==
  IF S = {} THEN 0
  ELSE LET r == CHOOSE x \in S : TRUE IN r.cycles + SumCycles(S \ {r})

\* groupby(shift)[cycles].mean(): one entry per label present in the counts
AverageCyclesPerShiftType(counts) ==
  [s \in {r.shift : r \in counts} |->
     LET rows == {r \in counts : r.shift = s}
     IN [num |-> SumCycles(rows), den |-> Cardinality(rows)]]

(* ------------- lines 155-182: per-shift-type cycle statistics ---------- *)
\* cycles with the shift of their start_time and its shift_type merged in
CyclesWithShift(table, map) ==
  [k \in DOMAIN table |->
     LET a == assign_shift_and_date(table[k].start_time.v)
     IN [start_time |-> table[k].start_time, end_time |-> table[k].end_time,
         duration_sec |-> table[k].duration_sec,
         next_start_time |-> table[k].next_start_time,
         pause_sec |-> table[k].pause_sec,
         shift |-> a.shift, shift_date |-> a.shift_date,
         shift_type |-> ShiftTypeOf(map, a)]]

CyclesFull_all(table) == [k \in DOMAIN table |-> TRUE]
\* cycles[cycles.shift_type == 'full'] as a row mask
CyclesFull(table) == [k \in DOMAIN table |-> table[k].shift_type = "full"]

ShiftCycleStats(rows) ==
  [s \in {rows[k].shift : k \in DOMAIN rows} |->
     LET grp == FilterSeq(rows, [k \in DOMAIN rows |-> rows[k].shift = s])
         dur == Column(grp, "duration_sec")
         pau == Column(grp, "pause_sec")
     IN [avg_cycle_duration |-> Mean(dur), std_cycle_duration |-> Std(dur),
         avg_pause_duration |-> Mean(pau), std_pause_duration |-> Std(pau),
         count |-> Len(Present(dur)),
         cv_cycle_duration |-> CV(Std(dur), Mean(dur)),
         cv_pause_duration |-> CV(Std(pau), Mean(pau))]]

(* ---------------------- line 193: cycle ids ---------------------------- *)
\* cumsum of the cycle_start flags
CycleIds(flag) ==
  [i \in DOMAIN flag |-> Cardinality({j \in 1..i : flag[j]})]

(* ------------------------------ inputs --------------------------------- *)
SortedTimes(S, n) ==
  {t \in [1..n -> S] : \A i \in 1..(n - 1) : t[i] <= t[i + 1]}

\* the file: every sample carries one row per recorded metric; rows of other
\* metrics carry a value above the threshold
FileRows(tms, vals, mets) ==
  LET power(i) == [time |-> tms[i], metric |-> "Power_consumption", value |-> vals[i]]
      other(i) == [time |-> tms[i], metric |-> "Temperature", value |-> 2]
  IN IF mets = Metrics
     THEN [j \in 1..(2 * Len(tms)) |->
             IF j % 2 = 1 THEN other((j + 1) \div 2) ELSE power(j \div 2)]
     ELSE IF mets = {"Power_consumption"} THEN [i \in DOMAIN tms |-> power(i)]
     ELSE [i \in DOMAIN tms |-> other(i)]

PipeAt(p) ==
  /\ pc = p /\ err = "none"
  /\ df = <<>> /\ running = <<>> /\ cycle_start = <<>> /\ cycle_end = <<>>
  /\ cycle_starts = <<>> /\ cycle_ends = <<>> /\ cycles = <<>>
  /\ cycle_count = 0
  /\ df_shift = <<>> /\ shift_full_map = {} /\ df_full = {}
  /\ cycles_per_individual_shift = {} /\ average_cycles_per_shift_type = <<>>
  /\ overall = <<>> /\ cycles_full = <<>> /\ shift_cycle_stats = <<>>
  /\ cycle_id = <<>>

ProbeIdle ==
  /\ ts = 0 /\ ts_shift = <<>> /\ times = <<>> /\ times_map = {}

Init ==
  /\ \E n \in 0..MaxLen :
       \E tms \in SortedTimes(MainInstants, n), vals \in [1..n -> Values],
          mets \in (SUBSET Metrics) \ {{}} :
         raw = FileRows(tms, vals, mets)
  /\ PipeAt("load")
  /\ ProbeIdle

(* ------------------------------ pipeline ------------------------------- *)
\* lines 9-17
Load ==
  /\ pc = "load"
  /\ df' = LoadFrame(raw)
  /\ pc' = "detect"
  /\ UNCHANGED <<raw, err, running, cycle_start, cycle_end, cycle_starts,
                 cycle_ends, cycles, cycle_count, df_shift, shift_full_map,
                 df_full, cycles_per_individual_shift,
                 average_cycles_per_shift_type, overall, cycles_full,
                 shift_cycle_stats, cycle_id>>
  /\ UNCHANGED probeVars

\* lines 22-39
DetectEdges ==
  /\ pc = "detect"
  /\ running' = RunningCol(df)
  /\ cycle_start' = CycleStartCol(RunningCol(df))
  /\ cycle_end' = CycleEndCol(RunningCol(df))
  /\ cycle_starts' = EventTimes(df, CycleStartCol(RunningCol(df)))
  /\ cycle_ends' = EventTimes(df, CycleEndCol(RunningCol(df)))
  /\ pc' = "align"
  /\ UNCHANGED <<raw, err, df, cycles, cycle_count, df_shift, shift_full_map,
                 df_full, cycles_per_individual_shift,
                 average_cycles_per_shift_type, overall, cycles_full,
                 shift_cycle_stats, cycle_id>>
  /\ UNCHANGED probeVars

\* lines 42-46
Align ==
  /\ pc = "align"
  /\ IF AlignRaises(cycle_starts, cycle_ends)
     THEN /\ pc' = "raised"
          /\ err' = "IndexError"
          /\ UNCHANGED <<cycle_starts, cycle_ends>>
     ELSE /\ pc' = "cycles"
          /\ cycle_starts' = AlignFrames(cycle_starts, cycle_ends).starts
          /\ cycle_ends' = AlignFrames(cycle_starts, cycle_ends).ends
          /\ UNCHANGED err
  /\ UNCHANGED <<raw, df, running, cycle_start, cycle_end, cycles,
                 cycle_count, df_shift, shift_full_map, df_full,
                 cycles_per_individual_shift, average_cycles_per_shift_type,
                 overall, cycles_full, shift_cycle_stats, cycle_id>>
  /\ UNCHANGED probeVars

\* lines 49-65
ComputeCycles ==
  /\ pc = "cycles"
  /\ cycles' = CycleTable(cycle_starts, cycle_ends)
  /\ cycle_count' = CountTrue(cycle_start)
  /\ pc' = "shifts"
  /\ UNCHANGED <<raw, err, df, running, cycle_start, cycle_end, cycle_starts,
                 cycle_ends, df_shift, shift_full_map, df_full,
                 cycles_per_individual_shift, average_cycles_per_shift_type,
                 overall, cycles_full, shift_cycle_stats, cycle_id>>
  /\ UNCHANGED probeVars

\* lines 80-109
ClassifyShifts ==
  /\ pc = "shifts"
  /\ LET map == ShiftFullMap({df[i].time : i \in DOMAIN df})
         col == [i \in DOMAIN df |->
                   LET a == assign_shift_and_date(df[i].time)
                   IN [shift |-> a.shift, shift_date |-> a.shift_date,
                       shift_type |-> ShiftTypeOf(map, a)]]
     IN /\ shift_full_map' = map
        /\ df_shift' = col
        /\ df_full' = {i \in DOMAIN df : col[i].shift_type = "full"}
  /\ pc' = "count_shift"
  /\ UNCHANGED <<raw, err, df, running, cycle_start, cycle_end, cycle_starts,
                 cycle_ends, cycles, cycle_count,
                 cycles_per_individual_shift, average_cycles_per_shift_type,
                 overall, cycles_full, shift_cycle_stats, cycle_id>>
  /\ UNCHANGED probeVars

\* lines 112-130
CountPerShift ==
  /\ pc = "count_shift"
  /\ cycles_per_individual_shift' = CyclesPerShift(cycle_start, df_shift, df_full)
  /\ average_cycles_per_shift_type' =
       AverageCyclesPerShiftType(CyclesPerShift(cycle_start, df_shift, df_full))
  /\ pc' = "variability"
  /\ UNCHANGED <<raw, err, df, running, cycle_start, cycle_end, cycle_starts,
                 cycle_ends, cycles, cycle_count, df_shift, shift_full_map,
                 df_full, overall, cycles_full, shift_cycle_stats, cycle_id>>
  /\ UNCHANGED probeVars

\* lines 137-147
Variability ==
  /\ pc = "variability"
  /\ LET dur == Column(cycles, "duration_sec")
         pau == Column(cycles, "pause_sec")
     IN overall' = [duration_mean |-> Mean(dur), duration_std |-> Std(dur),
                    duration_cv |-> CV(Std(dur), Mean(dur)),
                    pause_mean |-> Mean(pau), pause_std |-> Std(pau),
                    pause_cv |-> CV(Std(pau), Mean(pau))]
  /\ pc' = "shift_stats"
  /\ UNCHANGED <<raw, err, df, running, cycle_start, cycle_end, cycle_starts,
                 cycle_ends, cycles, cycle_count, df_shift, shift_full_map,
                 df_full, cycles_per_individual_shift,
                 average_cycles_per_shift_type, cycles_full,
                 shift_cycle_stats, cycle_id>>
  /\ UNCHANGED probeVars

\* lines 155-185
ShiftStats ==
  /\ pc = "shift_stats"
  /\ LET merged == CyclesWithShift(cycles, shift_full_map)
         kept == FilterSeq(merged, CyclesFull(merged))
     IN /\ cycles' = merged
        /\ cycles_full' = kept
        /\ shift_cycle_stats' = ShiftCycleStats(kept)
  /\ pc' = "visualize"
  /\ UNCHANGED <<raw, err, df, running, cycle_start, cycle_end, cycle_starts,
                 cycle_ends, cycle_count, df_shift, shift_full_map, df_full,
                 cycles_per_individual_shift, average_cycles_per_shift_type,
                 overall, cycle_id>>
  /\ UNCHANGED probeVars

\* lines 193-197
Visualize ==
  /\ pc = "visualize"
  /\ cycle_id' = CycleIds(cycle_start)
  /\ pc' = "done"
  /\ UNCHANGED <<raw, err, df, running, cycle_start, cycle_end, cycle_starts,
                 cycle_ends, cycles, cycle_count, df_shift, shift_full_map,
                 df_full, cycles_per_individual_shift,
                 average_cycles_per_shift_type, overall, cycles_full,
                 shift_cycle_stats>>
  /\ UNCHANGED probeVars

Next ==
  \/ Load
  \/ DetectEdges
  \/ Align
  \/ ComputeCycles
  \/ ClassifyShifts
  \/ CountPerShift
  \/ Variability
  \/ ShiftStats
  \/ Visualize

Spec == Init /\ [][Next]_vars

(* ------------- the worked example of the specification ----------------- *)
\* an idle reading at 21:30, running readings from 22:05 through 22:40, then
\* one idle reading at or after 22:40
ExampleMids(d) ==
  {<<>>, <<Ts(d, 22, 10)>>, <<Ts(d, 22, 25)>>, <<Ts(d, 22, 10), Ts(d, 22, 25)>>}
ExampleIdleTimes(d) ==
  {Ts(d, 22, 40), Ts(d, 22, 41), Ts(d, 22, 45), Ts(d, 23, 30),
   Ts(d + 1, 5, 0), Ts(d + 1, 6, 10)}

InitExample ==
  /\ \E d \in 0..(MaxDay - 1) :
       \E mid \in ExampleMids(d), t \in ExampleIdleTimes(d), idle \in {0, 1},
          mets \in {{"Power_consumption"}, Metrics} :
         raw = FileRows(<<Ts(d, 21, 30), Ts(d, 22, 5)>> \o mid \o <<Ts(d, 22, 40), t>>,
                        <<idle, 2>> \o [i \in DOMAIN mid |-> 2] \o <<2, idle>>,
                        mets)
  /\ PipeAt("load")
  /\ ProbeIdle

SpecExample == InitExample /\ [][Next]_vars

(* -------------- the two classifiers applied on their own --------------- *)
Range(f) == {f[i] : i \in DOMAIN f}

\* most readings in the column handed to the completeness classifier
MaxGroup == 3

InitShift ==
  /\ raw = <<>>
  /\ PipeAt("off")
  /\ ts \in ShiftInstants
  /\ ts_shift = <<>> /\ times = <<>> /\ times_map = {}

\* line 80 on one timestamp
AssignShift ==
  /\ pc = "off"
  /\ ts_shift = <<>>
  /\ ts_shift' = <<assign_shift_and_date(ts)>>
  /\ UNCHANGED <<ts, times, times_map>>
  /\ UNCHANGED pipeVars

SpecShift == InitShift /\ [][AssignShift]_vars

InitFull ==
  /\ raw = <<>>
  /\ PipeAt("off")
  /\ ts = 0 /\ ts_shift = <<>>
  /\ \E n \in 1..MaxGroup : times \in SortedTimes(FullInstants, n)
  /\ times_map = {}

\* lines 80-103 on one column of timestamps
ClassifyGroups ==
  /\ pc = "off"
  /\ times # <<>>
  /\ times_map = {}
  /\ times_map' = ShiftFullMap(Range(times))
  /\ UNCHANGED <<ts, ts_shift, times>>
  /\ UNCHANGED pipeVars

SpecFull == InitFull /\ [][ClassifyGroups]_vars

(* ======================= properties of the pipeline ==================== *)
\* positions of the pipeline by what has already run
AfterDetect == {"align", "raised", "cycles", "shifts", "count_shift",
                "variability", "shift_stats", "visualize", "done"}
AfterAlign == {"cycles", "shifts", "count_shift", "variability",
               "shift_stats", "visualize", "done"}
AfterCycles == {"shifts", "count_shift", "variability", "shift_stats",
                "visualize", "done"}
AfterCountPerShift == {"variability", "shift_stats", "visualize", "done"}

\* the readings of the analysed metric, read off the file itself
Readings == SelectSeq(raw, LAMBDA r : r.metric = "Power_consumption")
IsRunning(i) == Readings[i].value > 1
\* rows where the machine is seen running after being seen idle (or first)
StartRows == {i \in DOMAIN Readings : IsRunning(i) /\ (i = 1 \/ ~IsRunning(i - 1))}
\* rows where the machine is seen idle right after being seen running
EndRows == {i \in DOMAIN Readings : ~IsRunning(i) /\ i > 1 /\ IsRunning(i - 1)}
\* the k-th smallest element of a set of rows
Kth(S, k) == CHOOSE x \in S : Cardinality({y \in S : y < x}) = k - 1
EndsRunning == Readings # <<>> /\ IsRunning(Len(Readings))

\* equality of two exact quotients, missing equal to missing only
SameMean(a, b) == a.na = b.na /\ (~a.na => a.num * b.den = b.num * a.den)

\* C1: after the alignment step there are as many retained starts as retained
\* ends, and row k of the cycle table holds the k-th start event of the data
\* together with the k-th end event of the data.
C1_AlignedPairs ==
  /\ pc \in AfterAlign => Len(cycle_starts) = Len(cycle_ends)
  /\ pc \in AfterCycles =>
       /\ Len(cycles) = Len(cycle_starts)
       /\ Len(cycles) <= Cardinality(StartRows)
       /\ Len(cycles) <= Cardinality(EndRows)
       /\ \A k \in DOMAIN cycles :
            /\ cycles[k].start_time = Val(Readings[Kth(StartRows, k)].time)
            /\ cycles[k].end_time = Val(Readings[Kth(EndRows, k)].time)

\* a run that ends while running after a completed cycle: the unmatched last
\* start was cut off by the alignment
C1_Witness ==
  /\ pc = "shifts"
  /\ EndsRunning
  /\ Len(cycles) = 1
  /\ Cardinality(StartRows) = 2

\* C2: when the data holds no complete cycle (no reading of the metric, only
\* idle readings, or a run that never returns to idle) the run does not raise.
C2_NoCycleNeverRaises == EndRows = {} => pc # "raised"

\* C3: with readings in time order every cycle has a duration, and it is not
\* negative: its end is not earlier than its start.
C3_DurationNonNegative ==
  pc \in AfterCycles =>
    \A k \in DOMAIN cycles :
      /\ ~cycles[k].duration_sec.na
      /\ cycles[k].duration_sec.v >= 0
      /\ cycles[k].end_time.v >= cycles[k].start_time.v

\* a finished run with a cycle whose start and end readings carry the same
\* timestamp (duration 0) next to a cycle of positive duration
C3_Witness ==
  /\ pc = "done"
  /\ \E k \in DOMAIN cycles : cycles[k].duration_sec = Val(0)
  /\ \E k \in DOMAIN cycles : cycles[k].duration_sec.v > 0

\* C9: the pause of cycle k is the start of cycle k+1 minus the end of cycle k
\* in seconds and is not negative; the last cycle of the table has no pause,
\* also when an unmatched start follows it in the data.
C9_PauseIsGapToNextCycle ==
  pc \in AfterCycles =>
    \A k \in DOMAIN cycles :
      IF k < Len(cycles)
      THEN /\ cycles[k].pause_sec =
                Val(Readings[Kth(StartRows, k + 1)].time
                    - Readings[Kth(EndRows, k)].time)
           /\ cycles[k].pause_sec.v >= 0
      ELSE cycles[k].pause_sec.na

\* a finished run with two cycles: a positive pause between them and no pause
\* after the second
C9_Witness ==
  /\ pc = "done"
  /\ Len(cycles) = 2
  /\ cycles[1].pause_sec.v > 0
  /\ cycles[2].pause_sec.na

\* the event rows (starts and ends) before row i
EventsBefore(i) == {j \in 1..(i - 1) : cycle_start[j] \/ cycle_end[j]}

\* C10: start and end events strictly alternate beginning with a start (no row
\* is both, no end comes before the first start), so the printed total of
\* cycle starts is the number of rows of the cycle table, plus one exactly
\* when the data ends while running.
C10_EventsAlternate ==
  /\ pc \in AfterDetect =>
       \A i \in DOMAIN cycle_start :
         /\ ~(cycle_start[i] /\ cycle_end[i])
         /\ cycle_start[i] =>
              (EventsBefore(i) = {} \/ cycle_end[SetMax(EventsBefore(i))])
         /\ cycle_end[i] =>
              (EventsBefore(i) # {} /\ cycle_start[SetMax(EventsBefore(i))])
  /\ pc \in AfterCycles =>
       cycle_count = Len(cycles) + (IF EndsRunning THEN 1 ELSE 0)

\* a finished run whose data ends while running: one more start than cycles
C10_Witness ==
  /\ pc = "done"
  /\ EndsRunning
  /\ cycle_count = Len(cycles) + 1
  /\ cycle_start[1]

(* ===================== properties of the classifiers =================== *)
\* the calendar day d and second of that day of a timestamp
OnDay(t, d) == d * 86400 <= t /\ t < (d + 1) * 86400
SecondOfDay(t, d) == t - d * 86400

\* C4: every timestamp gets one label and anchor date: 06:00-13:59 morning of
\* its own date, 14:00-21:59 day of its own date, 22:00-23:59 night of its
\* own date, 00:00-05:59 night of the previous date; so every reading from
\* 22:00 of a date up to 05:59 of the next is anchored to that first date.
C4_ShiftOfTimestamp ==
  ts_shift # <<>> =>
    /\ Len(ts_shift) = 1
    /\ ts_shift[1].shift \in {"morning", "day", "night"}
    /\ \A d \in 0..MaxDay :
         /\ OnDay(ts, d) =>
              LET sod == SecondOfDay(ts, d)
              IN ts_shift[1] =
                   (IF sod < 6 * 3600 THEN [shift |-> "night", shift_date |-> d - 1]
                    ELSE IF sod < 14 * 3600 THEN [shift |-> "morning", shift_date |-> d]
                    ELSE IF sod < 22 * 3600 THEN [shift |-> "day", shift_date |-> d]
                    ELSE [shift |-> "night", shift_date |-> d])
         /\ (d * 86400 + 22 * 3600 <= ts /\ ts < (d + 1) * 86400 + 6 * 3600) =>
              ts_shift[1] = [shift |-> "night", shift_date |-> d]

\* a reading at 05:59 of day 1 classified into the night shift of day 0
C4_Witness ==
  /\ ts = 86400 + 5 * 3600 + 59 * 60
  /\ ts_shift = <<[shift |-> "night", shift_date |-> 0]>>

\* the timestamps of one classified group
GroupTimes(g) ==
  {t \in Range(times) : \E d \in -1..MaxDay :
     /\ g.shift_date = d
     /\ IF g.shift = "night"
        THEN d * 86400 + 22 * 3600 <= t /\ t < (d + 1) * 86400 + 6 * 3600
        ELSE IF g.shift = "morning"
        THEN d * 86400 + 6 * 3600 <= t /\ t < d * 86400 + 14 * 3600
        ELSE d * 86400 + 14 * 3600 <= t /\ t < d * 86400 + 22 * 3600}
HourOfDay(t) == ((t % 86400) - (t % 3600)) \div 3600
LowHour(label) == IF label = "morning" THEN 6 ELSE IF label = "day" THEN 14 ELSE 22
HighHour(label) == IF label = "morning" THEN 13 ELSE IF label = "day" THEN 21 ELSE 5

\* C6 as stated: a group is 'full' exactly when the smallest and the largest
\* hour-of-day over its readings are the boundary hours of its label.
C6_FullIffMinMaxHour ==
  \A g \in times_map :
    g.shift_type = (IF /\ SetMin({HourOfDay(t) : t \in GroupTimes(g)}) = LowHour(g.shift)
                       /\ SetMax({HourOfDay(t) : t \in GroupTimes(g)}) = HighHour(g.shift)
                    THEN "full" ELSE "half")

\* C6 amended: a group is 'full' exactly when the hour-of-day of its earliest
\* reading and the hour-of-day of its latest reading are the boundary hours
\* of its label (morning 6 and 13, day 14 and 21, night 22 and 5), and 'half'
\* otherwise.
C6_FullIffEarliestLatestHour ==
  \A g \in times_map :
    /\ GroupTimes(g) # {}
    /\ g.shift_type \in {"full", "half"}
    /\ g.shift_type = "full" <=>
         \E a, b \in GroupTimes(g) :
           /\ \A t \in GroupTimes(g) : a <= t /\ t <= b
           /\ HourOfDay(a) = LowHour(g.shift)
           /\ HourOfDay(b) = HighHour(g.shift)

\* a night shift seen from 22:00 to 05:00 of the next day, classified full
C6_Witness ==
  /\ [shift_date |-> 0, shift |-> "night", shift_type |-> "full"] \in times_map
  /\ {22 * 3600, 86400 + 5 * 3600} \subseteq Range(times)

(* ==================== properties of the worked example ================= *)
\* the running reading at 22:05 and the idle reading that closes the example
ExampleStart == Readings[2].time
ExampleIdle == Readings[Len(Readings)].time

\* C5 as stated: the example yields exactly one cycle, of 2100 seconds, in
\* the night shift anchored to the date of the 22:05 reading.
C5_ExampleLasts2100 ==
  pc = "done" =>
    /\ Len(cycles) = 1
    /\ cycles[1].duration_sec = Val(2100)
    /\ cycles[1].shift = "night"
    /\ cycles[1].shift_date = Date(ExampleStart)

\* C5 amended: the example yields exactly one cycle, in the night shift
\* anchored to the date of the 22:05 reading; its duration is the time from
\* the 22:05 reading to the idle reading that follows the run, which is 2100
\* seconds exactly when that idle reading is stamped 22:40.
C5_ExampleLastsUntilIdle ==
  pc = "done" =>
    /\ Len(cycles) = 1
    /\ cycles[1].start_time = Val(ExampleStart)
    /\ cycles[1].duration_sec = Val(ExampleIdle - ExampleStart)
    /\ (cycles[1].duration_sec = Val(2100)) <=> (ExampleIdle = ExampleStart + 35 * 60)
    /\ cycles[1].shift = "night"
    /\ cycles[1].shift_date = Date(ExampleStart)

\* the example with its idle reading at 22:45: one cycle of 2400 seconds
C5_Witness ==
  /\ pc = "done"
  /\ ExampleIdle = ExampleStart + 40 * 60
  /\ Len(cycles) = 1
  /\ cycles[1].duration_sec = Val(2400)

(* ===================== properties of the aggregates ==================== *)
\* timestamp t lies in the window of the shift instance m of the map
InInstance(t, m) ==
  LET d == m.shift_date
  IN IF m.shift = "night"
     THEN d * 86400 + 22 * 3600 <= t /\ t < (d + 1) * 86400 + 6 * 3600
     ELSE IF m.shift = "morning"
     THEN d * 86400 + 6 * 3600 <= t /\ t < d * 86400 + 14 * 3600
     ELSE d * 86400 + 14 * 3600 <= t /\ t < d * 86400 + 22 * 3600

\* the shift instances of label s that were classified full
FullInstances(s) ==
  {m \in shift_full_map : m.shift = s /\ m.shift_type = "full"}
\* the cycle-start rows of the data that lie in the instance m
StartsIn(m) == {i \in StartRows : InInstance(Readings[i].time, m)}
\* cycle c started within a full instance of label s
CycleInFull(c, s) == \E m \in FullInstances(s) : InInstance(c.start_time.v, m)
Labels == {"morning", "day", "night"}
\* the cycles that started within a full shift instance, of label s or of any
FullCyclesOf(s) == SelectSeq(cycles, LAMBDA c : CycleInFull(c, s))
FullCycles == SelectSeq(cycles, LAMBDA c : \E s \in Labels : CycleInFull(c, s))
Durations(cs) == [k \in DOMAIN cs |-> Val(cs[k].end_time.v - cs[k].start_time.v)]
Pauses(cs) == [k \in DOMAIN cs |-> cs[k].pause_sec]

\* the per-shift tables are built from full shift instances only
PerShiftTablesFromFullOnly ==
  /\ \A r \in cycles_per_individual_shift :
       \E m \in FullInstances(r.shift) :
         /\ m.shift_date = r.shift_date
         /\ r.cycles = Cardinality(StartsIn(m))
  /\ \A k \in DOMAIN cycles_full :
       \E s \in Labels : CycleInFull(cycles_full[k], s)
  /\ DOMAIN shift_cycle_stats = {s \in Labels : FullCyclesOf(s) # <<>>}
  /\ \A s \in DOMAIN shift_cycle_stats :
       /\ shift_cycle_stats[s].count = Len(FullCyclesOf(s))
       /\ SameMean(shift_cycle_stats[s].avg_cycle_duration,
                   Mean(Durations(FullCyclesOf(s))))
       /\ SameMean(shift_cycle_stats[s].avg_pause_duration,
                   Mean(Pauses(FullCyclesOf(s))))
       /\ shift_cycle_stats[s].std_cycle_duration.na = (Len(FullCyclesOf(s)) < 2)
       /\ ~shift_cycle_stats[s].std_cycle_duration.na =>
            shift_cycle_stats[s].std_cycle_duration.sample =
              Present(Durations(FullCyclesOf(s)))

\* C7 as stated: every reported aggregate, the overall ones included, is
\* computed from readings and cycles of full shift instances only.
C7_AllAggregatesFromFullOnly ==
  pc = "done" =>
    /\ PerShiftTablesFromFullOnly
    /\ cycle_count = Cardinality({i \in StartRows :
                        \E s \in Labels : \E m \in FullInstances(s) : i \in StartsIn(m)})
    /\ SameMean(overall.duration_mean, Mean(Durations(FullCycles)))
    /\ SameMean(overall.pause_mean, Mean(Pauses(FullCycles)))

\* C7 amended: the per-shift aggregates (cycles per individual shift, and the
\* count, mean and standard deviation of cycle duration and of pause per
\* shift type) are computed only from cycle-start readings and cycles whose
\* start lies in a shift instance classified 'full'; the total cycle count
\* and the overall duration and pause statistics are computed from all
\* cycles, whatever the type of their shift.
C7_PerShiftFromFullOverallFromAll ==
  pc = "done" =>
    /\ PerShiftTablesFromFullOnly
    /\ cycle_count = Cardinality(StartRows)
    /\ SameMean(overall.duration_mean, Mean(Durations(cycles)))
    /\ SameMean(overall.pause_mean, Mean(Pauses(cycles)))
    /\ overall.duration_std.na = (Len(cycles) < 2)

\* a finished run with one cycle in a full shift and one in a half shift
C7_Witness ==
  /\ pc = "done"
  /\ Len(cycles_full) = 1
  /\ Len(cycles) = 2
  /\ \E k \in DOMAIN cycles : cycles[k].shift_type = "half"

\* C8: for each shift label the reported average is the mean, over all full
\* shift instances of the label, of the number of cycle starts in the
\* instance, an instance without a cycle start counting as 0.
C8_AverageOverAllFullShifts ==
  pc \in AfterCountPerShift =>
    \A s \in Labels :
      FullInstances(s) # {} =>
        /\ s \in DOMAIN average_cycles_per_shift_type
        /\ average_cycles_per_shift_type[s].num * Cardinality(FullInstances(s)) =
             Cardinality(UNION {StartsIn(m) : m \in FullInstances(s)})
               * average_cycles_per_shift_type[s].den

====
